---- MODULE Spec2Model ----
(***************************************************************************)
(* Model of the classification-and-extraction pipeline of smart_document:  *)
(* LLMClassifier.predict, the three hybrid entity extractors               *)
(* (BaseEntityExtractor.extract), ExtractorFactory and                     *)
(* DocumentAnalyzer.analyze.                                               *)
(*                                                                         *)
(* The classifier, the extractors and the factory keep no state between    *)
(* calls, so each call is one action that draws its inputs (the completion *)
(* service's answer, the outcome of text extraction, ...) and records the  *)
(* call and its outcome in a variable of its own.                          *)
(***************************************************************************)
EXTENDS Integers, Sequences, FiniteSets, TLC

VARIABLES clf, ext, mrg, sel, ana, bat, files, procs, now, issued, calls

\* the state of the document store and of its callers
sto == <<files, procs, now, issued, calls>>

vars == <<clf, ext, mrg, sel, ana, bat, sto>>

(***************************************************************************)
(* Bounds.                                                                 *)
(***************************************************************************)
\* longest ranked-alternatives list of a completion response
MaxRanked == 3
\* log-probabilities are -L * ln 2 for a level L in 0..MaxLP
MaxLP == 3
\* number of entries of a model-pass JSON object chosen freely
MaxOverride == 2
\* number of entries of the rule results handed to a model pass
MaxRule == 2
\* number of words of a file name
MaxWords == 2
MaxBatch == 3
MaxClock == 2
MaxCalls == 3

\* "no value" of a variable whose operation has not been called
Idle == [op |-> "idle"]

(***************************************************************************)
(* types.py: DocumentType, in declaration order, by value.                 *)
(***************************************************************************)
DocumentType == <<"Contract", "Invoice", "Financial", "Unknown">>

DocumentTypeValues == {DocumentType[i] : i \in 1..Len(DocumentType)}

\* the categories an extractor exists for
KnownTypes == {"Contract", "Invoice", "Financial"}

(***************************************************************************)
(* LLMClassifier.predict                                                   *)
(***************************************************************************)
\* tokens the completion service may rank: the four labels, a label with a
\* leading blank, the spec's name of the third category, an unrelated word
Tokens == {"Contract", "Invoice", "Financial", "Unknown", " Invoice", "Report", "The"}

\* str.strip() on a token
Strip(t) == IF t = " Invoice" THEN "Invoice" ELSE t

\* levels up to ExpFloor have a positive float probability; below it
\* math.exp underflows to 0.0
ExpFloor == 2

\* math.exp(logprob) for logprob = -L * ln 2, in units of 2^-ExpFloor
Exp(L) == IF L > ExpFloor THEN 0 ELSE 2 ^ (ExpFloor - L)

\* the entries of a ranked list
RankedEntries == [token : Tokens, logprob : 0..MaxLP]

\* ranked alternatives as the service sends them: distinct tokens, by
\* descending log-probability, the most likely token not underflowing
IsRanked(r) ==
    /\ \A i, j \in 1..Len(r) : i < j => /\ r[i].token # r[j].token
                                        /\ r[i].logprob <= r[j].logprob
    /\ Len(r) > 0 => r[1].logprob <= ExpFloor

RankedLists ==
    UNION {{r \in [1..n -> RankedEntries] : IsRanked(r)} : n \in 0..MaxRanked}

\* client.chat.completions.create raises, or answers without the
\* log-probability payload
FailedOutcomes ==
    {[kind |-> k, content |-> "", ranked |-> <<>>] :
        k \in {"error", "no_logprobs", "empty_logprobs"}}

\* the sampled token of an answer: the most likely one (temperature 0)
ContentsOf(ranked) == IF Len(ranked) > 0 THEN {ranked[1].token} ELSE Tokens

\* an answer with the sampled token and the ranked alternatives
OkOutcome(content, ranked) == [kind |-> "ok", content |-> content, ranked |-> ranked]

\* token_confidences: a dict comprehension, the last entry of a token wins
TokenConfidences(ranked) ==
    [t \in {ranked[i].token : i \in 1..Len(ranked)} |->
        LET last == CHOOSE i \in 1..Len(ranked) :
                        /\ ranked[i].token = t
                        /\ \A j \in 1..Len(ranked) : ranked[j].token = t => j <= i
        IN  Exp(ranked[last].logprob)]

\* a token matches a label after stripping; the least probability is kept
TypeConfidencesStripped(tc) ==
    [v \in DocumentTypeValues |->
        LET ts == {t \in DOMAIN tc : Strip(t) = v}
        IN  IF ts = {} THEN 0
            ELSE tc[CHOOSE t \in ts : \A u \in ts : tc[t] <= tc[u]]]

\* type_confidences: 0.0 for every member, overwritten by the confidence of
\* a token that equals the member's value
TypeConfidences(tc) ==
    [v \in DocumentTypeValues |-> IF v \in DOMAIN tc THEN tc[v] ELSE 0]

RECURSIVE MaxItemLastWins(_, _, _)
\* max() that keeps the last of several maximal items
MaxItemLastWins(d, i, best) ==
    IF i > Len(DocumentType) THEN best
    ELSE MaxItemLastWins(d, i + 1,
            IF d[DocumentType[i]] >= d[best] THEN DocumentType[i] ELSE best)

RECURSIVE MaxItem(_, _, _)
\* max(type_confidences.items(), key=lambda x: x[1])[0]: the first of the
\* maximal items in the dict's (the enumeration's) order
MaxItem(d, i, best) ==
    IF i > Len(DocumentType) THEN best
    ELSE MaxItem(d, i + 1,
            IF d[DocumentType[i]] > d[best] THEN DocumentType[i] ELSE best)

NoScores == [v \in DocumentTypeValues |-> 0]

Raised(n) ==
    [status |-> "raised", document_type |-> "none", confidence_score |-> NoScores,
     raw_response |-> "", requests |-> n]

\* predict that answers Unknown when the payload is missing
PredictDefaulting(client, text_ok, svc) ==
    IF ~text_ok THEN Raised(0)
    ELSE IF ~client THEN Raised(0)
    ELSE IF svc.kind = "error" THEN Raised(1)
    ELSE IF svc.kind # "ok"
         THEN [status |-> "returned", document_type |-> "Unknown",
               confidence_score |-> NoScores, raw_response |-> "", requests |-> 1]
    ELSE LET d == TypeConfidences(TokenConfidences(svc.ranked))
         IN  [status |-> "returned", document_type |-> MaxItem(d, 2, DocumentType[1]),
              confidence_score |-> d, raw_response |-> Strip(svc.content),
              requests |-> 1]

\* predict(document_path): text extraction, one completion request, the
\* distribution and its arg max; nothing is caught
Predict(client, text_ok, svc) ==
    IF ~text_ok THEN Raised(0)
    ELSE IF ~client THEN Raised(0)
    ELSE IF svc.kind # "ok" THEN Raised(1)
    ELSE LET d == TypeConfidences(TokenConfidences(svc.ranked))
         IN  [status |-> "returned", document_type |-> MaxItem(d, 2, DocumentType[1]),
              confidence_score |-> d, raw_response |-> Strip(svc.content),
              requests |-> 1]

\* one call of predict on a classifier built with or without a usable client
PredictCall ==
    /\ clf = Idle
    /\ \E client \in BOOLEAN, text_ok \in BOOLEAN :
          \/ \E svc \in FailedOutcomes :
                clf' = [op |-> "predict", client |-> client, text_ok |-> text_ok,
                        svc |-> svc, out |-> Predict(client, text_ok, svc)]
          \/ \E ranked \in RankedLists :
                \E content \in ContentsOf(ranked) :
                    LET svc == OkOutcome(content, ranked)
                    IN  clf' = [op |-> "predict", client |-> client,
                                text_ok |-> text_ok, svc |-> svc,
                                out |-> Predict(client, text_ok, svc)]
    /\ UNCHANGED <<sto, bat, ext, mrg, sel, ana>>

\* the caller is done with the classification outcome
PredictDone ==
    /\ clf # Idle
    /\ clf' = Idle
    /\ UNCHANGED <<sto, bat, ext, mrg, sel, ana>>

(***************************************************************************)
(* The hybrid entity extractors: InvoiceExtractor, ContractExtractor and   *)
(* ReportExtractor, named by the value of their DocumentType.              *)
(***************************************************************************)
\* rule_based_fields of _setup_extraction_fields
RuleBasedFields(kind) ==
    CASE kind = "Invoice" ->
            <<"vendor_name", "total_amount", "currency", "invoice_date", "due_date">>
      [] kind = "Contract" ->
            <<"parties", "effective_date", "termination_date", "contract_type">>
      [] kind = "Financial" ->
            <<"reporting_period", "report_date", "company_name", "fiscal_year">>

\* llm_based_fields of _setup_extraction_fields
LlmBasedFields(kind) ==
    CASE kind = "Invoice" ->
            <<"line_items", "vendor_details", "payment_terms", "invoice_number">>
      [] kind = "Contract" ->
            <<"key_terms", "obligations", "payment_terms", "contract_value",
              "governing_law">>
      [] kind = "Financial" ->
            <<"key_metrics", "executive_summary", "financial_highlights",
              "risk_factors", "outlook">>

\* extraction_fields = rule_based_fields + llm_based_fields
ExtractionFields(kind) == RuleBasedFields(kind) \o LlmBasedFields(kind)

\* a JSON value: null, a string (or any value without an order against
\* numbers and dates), a positive number, a negative number
JsonValues == {"null", "text", "pos", "neg"}

\* a dict without entries
EmptyMap == [k \in {} |-> "null"]

\* {**a, **b}
Override(a, b) ==
    [k \in DOMAIN a \cup DOMAIN b |-> IF k \in DOMAIN b THEN b[k] ELSE a[k]]

\* keys whose values are chosen freely in a model-pass object: the first
\* rule field, the first model field, the two validated keys, an ad hoc key
OverrideKeys(kind) ==
    {RuleBasedFields(kind)[1], LlmBasedFields(kind)[1],
     "total_amount", "document_date", "notes"}

\* the objects the model pass may return: the first n expected fields with
\* plausible values, overridden by at most MaxOverride free entries
JsonObjects(kind) ==
    LET fields == ExtractionFields(kind)
        base(n) == [f \in {fields[i] : i \in 1..n} |->
                        IF f = "total_amount" THEN "pos" ELSE "text"]
        free == UNION {[S -> JsonValues] :
                        S \in {T \in SUBSET OverrideKeys(kind) :
                                    Cardinality(T) <= MaxOverride}}
    IN  {Override(base(n), o) : n \in 0..Len(fields), o \in free}

\* what the model pass meets: the completion call raises (also: no client),
\* its text is not JSON, its JSON is no object, or it is an object
ModelPassOutcomes(kind) ==
    {[kind |-> k, obj |-> EmptyMap] : k \in {"error", "invalid_json", "non_object"}}
    \cup {[kind |-> "object", obj |-> o] : o \in JsonObjects(kind)}

\* ModelPassOutcomes, by extractor
ModelPassOutcomesOf == [kind \in KnownTypes |-> ModelPassOutcomes(kind)]

\* what extract meets before the model pass: the PDF text cannot be read,
\* or a prompt template cannot be loaded
EarlyFailures == {[kind |-> k, obj |-> EmptyMap] : k \in {"text_error", "prompt_error"}}

\* _extract_rule_based_entities: the three rule passes are empty
ExtractRuleBasedEntities(kind) == EmptyMap

\* the merge with the rule results taking precedence
ExtractLLMEntitiesRuleFirst(rule_based_results, resp) ==
    IF resp.kind = "object" THEN Override(resp.obj, rule_based_results)
    ELSE rule_based_results

\* _extract_llm_entities: the completion call and json.loads inside try;
\* any exception is printed and the rule results are returned
ExtractLLMEntities(rule_based_results, resp) ==
    IF resp.kind = "object" THEN Override(rule_based_results, resp.obj)
    ELSE rule_based_results

\* the score counting a field that is present with the value null
CalculateConfidenceScoreNulls(kind, extracted_entities) ==
    LET fields == RuleBasedFields(kind) \o LlmBasedFields(kind)
        total_fields == Len(RuleBasedFields(kind)) + Len(LlmBasedFields(kind))
        extracted_count ==
            Cardinality({i \in 1..Len(fields) : fields[i] \in DOMAIN extracted_entities})
    IN  IF total_fields = 0 THEN [num |-> 0, den |-> 1]
        ELSE [num |-> extracted_count, den |-> total_fields]

\* _calculate_confidence_score, as the fraction num / den
CalculateConfidenceScore(kind, extracted_entities) ==
    LET fields == RuleBasedFields(kind) \o LlmBasedFields(kind)
        total_fields == Len(RuleBasedFields(kind)) + Len(LlmBasedFields(kind))
        extracted_count ==
            Cardinality({i \in 1..Len(fields) :
                            /\ fields[i] \in DOMAIN extracted_entities
                            /\ extracted_entities[fields[i]] # "null"})
    IN  IF total_fields = 0 THEN [num |-> 0, den |-> 1]
        ELSE [num |-> extracted_count, den |-> total_fields]

\* dict.get(key), None when the key is missing
Get(m, k) == IF k \in DOMAIN m THEN m[k] ELSE "null"

\* _create_metadata
CreateMetadata(kind, extracted_entities) ==
    [document_type |-> kind,
     confidence_score |-> CalculateConfidenceScore(kind, extracted_entities),
     document_date |-> Get(extracted_entities, "document_date"),
     total_amount |-> Get(extracted_entities, "total_amount"),
     currency |-> Get(extracted_entities, "currency"),
     parties |-> IF "parties" \in DOMAIN extracted_entities
                 THEN extracted_entities["parties"] ELSE "empty",
     additional_fields |-> extracted_entities]

\* validate_metadata raises TypeError: total_amount < 0 on a value that is
\* no number, document_date > datetime.now() on any JSON value
ValidateRaises(metadata) ==
    \/ metadata.total_amount = "text"
    \/ metadata.document_date # "null"

\* validate_metadata: the errors it returns when it does not raise
ValidateMetadata(metadata) ==
    (IF metadata.confidence_score.num < 0
        \/ metadata.confidence_score.num > metadata.confidence_score.den
     THEN <<"Confidence score must be between 0 and 1">> ELSE <<>>)
    \o (IF metadata.total_amount = "neg"
        THEN <<"Total amount cannot be negative">> ELSE <<>>)

\* the except branch of extract: empty metadata, one error
ExtractionFailed(kind) ==
    [metadata |-> [document_type |-> kind,
                   confidence_score |-> [num |-> 0, den |-> 1],
                   document_date |-> "null", total_amount |-> "null",
                   currency |-> "null", parties |-> "empty",
                   additional_fields |-> EmptyMap],
     extraction_method |-> "hybrid_entity_extraction",
     errors |-> <<"Extraction failed">>]

\* the class create_extractor builds for a document type; its constructor
\* hands that member of the enumeration to BaseEntityExtractor.__init__
ExtractorClass ==
    [Invoice |-> "InvoiceExtractor", Contract |-> "ContractExtractor",
     Financial |-> "ReportExtractor"]

\* extract with validate_metadata called after the try block: what it
\* raises reaches the caller
ExtractUnguarded(kind, env) ==
    IF env.kind \in {"text_error", "prompt_error"} THEN ExtractionFailed(kind)
    ELSE LET rule_based_results == ExtractRuleBasedEntities(kind)
             combined_results == ExtractLLMEntities(rule_based_results, env)
             metadata == CreateMetadata(kind, combined_results)
         IN  IF ValidateRaises(metadata)
             THEN [metadata |-> metadata, extraction_method |-> "raised",
                   errors |-> <<>>]
             ELSE [metadata |-> metadata,
                   extraction_method |-> "hybrid_entity_extraction",
                   errors |-> ValidateMetadata(metadata)]

\* BaseEntityExtractor.extract
Extract(kind, env) ==
    IF env.kind \in {"text_error", "prompt_error"} THEN ExtractionFailed(kind)
    ELSE LET rule_based_results == ExtractRuleBasedEntities(kind)
             combined_results == ExtractLLMEntities(rule_based_results, env)
             metadata == CreateMetadata(kind, combined_results)
         IN  IF ValidateRaises(metadata) THEN ExtractionFailed(kind)
             ELSE [metadata |-> metadata,
                   extraction_method |-> "hybrid_entity_extraction",
                   errors |-> ValidateMetadata(metadata)]

\* one call of extract on one of the three extractors
ExtractCall ==
    /\ ext = Idle /\ mrg = Idle
    /\ \E kind \in KnownTypes :
          \E env \in EarlyFailures \cup ModelPassOutcomesOf[kind] :
              ext' = [op |-> "extract", kind |-> kind, env |-> env,
                      rule |-> ExtractRuleBasedEntities(kind),
                      out |-> Extract(kind, env)]
    /\ UNCHANGED <<sto, bat, clf, mrg, sel, ana>>

\* the caller is done with the extraction outcome
ExtractDone ==
    /\ ext # Idle
    /\ ext' = Idle
    /\ UNCHANGED <<sto, bat, clf, mrg, sel, ana>>

\* rule results a rule pass could hand to the model pass
RuleResults(kind) ==
    LET fields == RuleBasedFields(kind)
    IN  UNION {[S -> {"text"}] :
                S \in {T \in SUBSET {fields[i] : i \in 1..Len(fields)} :
                            Cardinality(T) <= MaxRule}}

\* one call of _extract_llm_entities with the results of a rule pass
LlmEntitiesCall ==
    /\ ext = Idle /\ mrg = Idle
    /\ \E kind \in KnownTypes :
          \E rule \in RuleResults(kind), resp \in ModelPassOutcomesOf[kind] :
              mrg' = [op |-> "llm_entities", kind |-> kind, rule |-> rule,
                      resp |-> resp, out |-> ExtractLLMEntities(rule, resp)]
    /\ UNCHANGED <<sto, bat, clf, ext, sel, ana>>

\* extract goes on with the merged entities
LlmEntitiesDone ==
    /\ mrg # Idle
    /\ mrg' = Idle
    /\ UNCHANGED <<sto, bat, clf, ext, sel, ana>>

(***************************************************************************)
(* ExtractorFactory                                                        *)
(***************************************************************************)
\* str.lower() on the strings of the model
Lower(w) ==
    CASE w = "Contract" -> "contract"
      [] w = "Invoice" -> "invoice"
      [] w = "Financial" -> "financial"
      [] w = "Unknown" -> "unknown"
      [] w = "Report" -> "report"
      [] OTHER -> w

\* what a caller may pass as document_type: a member of the enumeration,
\* None, or a plain string that is no member
TypeArguments == DocumentTypeValues \cup {"None", "str"}

\* create_extractor: the extractor of the type, ValueError for any other value
CreateExtractor(document_type) ==
    IF document_type = "Invoice" THEN [status |-> "returned", extractor |-> "Invoice"]
    ELSE IF document_type = "Contract" THEN [status |-> "returned", extractor |-> "Contract"]
    ELSE IF document_type = "Financial" THEN [status |-> "returned", extractor |-> "Financial"]
    ELSE [status |-> "raised", extractor |-> "none"]

\* words a file name is made of
Words == {"Invoice", "bill", "contract", "agreement", "Report", "earnings", "scan"}

\* file names: up to MaxWords words
FileNames == UNION {[1..n -> Words] : n \in 0..MaxWords}

\* keyword in file_path.name.lower()
Contains(file_name, keyword) ==
    \E i \in 1..Len(file_name) : Lower(file_name[i]) = keyword

\* create_extractor_from_file: the given type if there is one, else the
\* extractor the file name suggests, else the invoice extractor
CreateExtractorFromFile(file_name, document_type) ==
    IF document_type # "None" THEN CreateExtractor(document_type)
    ELSE IF Contains(file_name, "invoice") \/ Contains(file_name, "bill")
         THEN [status |-> "returned", extractor |-> "Invoice"]
    ELSE IF Contains(file_name, "contract") \/ Contains(file_name, "agreement")
         THEN [status |-> "returned", extractor |-> "Contract"]
    ELSE IF Contains(file_name, "report") \/ Contains(file_name, "earnings")
         THEN [status |-> "returned", extractor |-> "Financial"]
    ELSE [status |-> "returned", extractor |-> "Invoice"]

\* one call of ExtractorFactory.create_extractor
CreateExtractorCall ==
    /\ sel = Idle /\ ana = Idle /\ bat = Idle
    /\ \E document_type \in TypeArguments \ {"None"} :
          sel' = [op |-> "create_extractor", document_type |-> document_type,
                  file_name |-> <<>>, out |-> CreateExtractor(document_type)]
    /\ UNCHANGED <<sto, bat, clf, ext, mrg, ana>>

\* one call of ExtractorFactory.create_extractor_from_file
CreateExtractorFromFileCall ==
    /\ sel = Idle /\ ana = Idle /\ bat = Idle
    /\ \E file_name \in FileNames, document_type \in TypeArguments :
          sel' = [op |-> "create_extractor_from_file", document_type |-> document_type,
                  file_name |-> file_name,
                  out |-> CreateExtractorFromFile(file_name, document_type)]
    /\ UNCHANGED <<sto, bat, clf, ext, mrg, ana>>

\* the caller is done with the extractor
CreateExtractorDone ==
    /\ sel # Idle
    /\ sel' = Idle
    /\ UNCHANGED <<sto, bat, clf, ext, mrg, ana>>

(***************************************************************************)
(* DocumentAnalyzer.analyze, step by step                                  *)
(***************************************************************************)
\* the documents a caller may name
Paths == {[name |-> "good.pdf", exists |-> TRUE],
          [name |-> "missing.pdf", exists |-> FALSE]}

\* the values uuid.uuid4() may give
Uuids == {"uuid-a", "uuid-b"}

\* bool(value) of a metadata field
Truthy(v) == v \notin {"null", "empty"}

\* what an extractor meets during analyze: as in extract, the model-pass
\* objects being the empty and the complete ones with their free entries
AnalyzeEnvs(kind) ==
    {e \in EarlyFailures \cup ModelPassOutcomesOf[kind] :
        e.kind = "object" =>
            \/ DOMAIN e.obj \subseteq OverrideKeys(kind)
            \/ \A i \in 1..Len(ExtractionFields(kind)) :
                  ExtractionFields(kind)[i] \in DOMAIN e.obj}

\* AnalyzeEnvs, by extractor
AnalyzeEnvsOf == [kind \in KnownTypes |-> AnalyzeEnvs(kind)]

NoClassification ==
    [status |-> "none", document_type |-> "none", confidence_score |-> NoScores]

NoResult ==
    [document_id |-> "none", filename |-> "none",
     classification |-> [type |-> "none", confidence |-> 0],
     metadata |-> EmptyMap,
     processing_info |-> [extraction_method |-> "none", errors |-> <<>>]]

\* a result that reports the entry of the first declared category
FormatResultFirstDeclared(document_id, path, classification_result, extraction_result) ==
    LET md == extraction_result.metadata
        common == {k \in {"total_amount", "currency", "parties"} : Truthy(md[k])}
    IN  [document_id |-> document_id,
         filename |-> path.name,
         classification |->
            [type |-> Lower(classification_result.document_type),
             confidence |-> classification_result.confidence_score[DocumentType[1]]],
         metadata |-> Override(md.additional_fields, [k \in common |-> md[k]]),
         processing_info |->
            [extraction_method |-> extraction_result.extraction_method,
             errors |-> extraction_result.errors]]

\* "Step 3: Format the results"
FormatResult(document_id, path, classification_result, extraction_result) ==
    LET md == extraction_result.metadata
        common == {k \in {"total_amount", "currency", "parties"} : Truthy(md[k])}
    IN  [document_id |-> document_id,
         filename |-> path.name,
         classification |->
            [type |-> Lower(classification_result.document_type),
             confidence |-> classification_result.confidence_score[
                                classification_result.document_type]],
         metadata |-> Override(md.additional_fields, [k \in common |-> md[k]]),
         processing_info |->
            [extraction_method |-> extraction_result.extraction_method,
             errors |-> extraction_result.errors]]

\* analyze after predict: an exception of predict leaves analyze
Classified(a, out) ==
    IF out.status = "raised"
    THEN [a EXCEPT !.pc = "failed", !.error = "classification",
                   !.requests = a.requests + out.requests]
    ELSE [a EXCEPT !.pc = "extracting",
                   !.requests = a.requests + out.requests,
                   !.classification = [status |-> "returned",
                                       document_type |-> out.document_type,
                                       confidence_score |-> out.confidence_score]]

\* analyze that classifies without looking at the path
StartedUnchecked(path, id) ==
    [op |-> "analyze", path |-> path, pc |-> "classifying", error |-> "none",
     document_id |-> id, requests |-> 0,
     classification |-> NoClassification, extractor |-> "none", result |-> NoResult]

\* analyze(document_path) up to the generated id: FileNotFoundError when
\* the path does not exist; requests counts the completion calls made
Started(path, id) ==
    [op |-> "analyze", path |-> path,
     pc |-> IF path.exists THEN "classifying" ELSE "failed",
     error |-> IF path.exists THEN "none" ELSE "not_found",
     document_id |-> IF path.exists THEN id ELSE "none",
     requests |-> 0,
     classification |-> NoClassification,
     extractor |-> "none",
     result |-> NoResult]

\* a call of analyze begins
AnalyzeStart ==
    /\ ana = Idle /\ sel = Idle /\ bat = Idle
    /\ \E path \in Paths, id \in Uuids : ana' = Started(path, id)
    /\ UNCHANGED <<sto, bat, clf, ext, mrg, sel>>

\* "Step 1: Classify the document"
AnalyzeClassify ==
    /\ ana # Idle /\ ana.pc = "classifying"
    /\ \E client \in BOOLEAN, text_ok \in BOOLEAN :
          \/ \E svc \in FailedOutcomes :
                ana' = Classified(ana, Predict(client, text_ok, svc))
          \/ \E ranked \in RankedLists :
                \E content \in ContentsOf(ranked) :
                    ana' = Classified(ana,
                              Predict(client, text_ok, OkOutcome(content, ranked)))
    /\ UNCHANGED <<sto, bat, clf, ext, mrg, sel>>

\* the model pass of extract calls the completion service once
ModelPassRequests(env) == IF env.kind \in {"text_error", "prompt_error"} THEN 0 ELSE 1

\* analyze after extract: the result is formatted and returned
Extracted(a, kind, env) ==
    LET extraction_result == Extract(kind, env)
    IN  IF Truthy(extraction_result.metadata.document_date)
        THEN [a EXCEPT !.pc = "failed", !.error = "isoformat", !.extractor = kind,
                       !.requests = a.requests + ModelPassRequests(env)]
        ELSE [a EXCEPT !.pc = "assembled", !.extractor = kind,
                       !.requests = a.requests + ModelPassRequests(env),
                       !.result = FormatResult(a.document_id, a.path,
                                               a.classification, extraction_result)]

\* "Step 2: Extract metadata": the factory, extract, and the result; the
\* ValueError of the factory leaves analyze
AnalyzeExtract ==
    /\ ana # Idle /\ ana.pc = "extracting"
    /\ LET made == CreateExtractor(ana.classification.document_type)
       IN  IF made.status = "raised"
           THEN ana' = [ana EXCEPT !.pc = "failed", !.error = "unsupported"]
           ELSE \E env \in AnalyzeEnvsOf[made.extractor] :
                   ana' = Extracted(ana, made.extractor, env)
    /\ UNCHANGED <<sto, bat, clf, ext, mrg, sel>>

\* analyze has returned or raised
AnalyzeDone ==
    /\ ana # Idle /\ ana.pc \in {"assembled", "failed"}
    /\ ana' = Idle
    /\ UNCHANGED <<sto, bat, clf, ext, mrg, sel>>

\* ---------------------------------------------------------------------
\* analyze_batch
\* ---------------------------------------------------------------------

\* the lists of paths handed to analyze_batch
PathLists == UNION {[1..n -> Paths] : n \in 0..MaxBatch}

\* what the classification of a document of a batch meets: the call
\* raises, or the answer is one token
BatchServices ==
    {s \in FailedOutcomes : s.kind = "error"}
    \cup {OkOutcome(t, <<[token |-> t, logprob |-> 0]>>) : t \in {"Invoice", "Unknown"}}

\* what the extraction of a document of a batch meets: no text, a failed
\* model pass, or an empty object
BatchEnvs(kind) ==
    {e \in AnalyzeEnvsOf[kind] :
        \/ e.kind \in {"text_error", "error"}
        \/ e.kind = "object" /\ e.obj = EmptyMap}

\* how one analyze call ended: the step it stopped at and its error
Fate(a) == IF a.pc = "assembled" THEN "assembled" ELSE a.error

\* the record analyze_batch appends for a document whose analyze raised
ErrorRecord(id, path, a) ==
    [document_id |-> id,
     filename |-> path.name,
     error |-> a.error,
     classification |-> "null",
     metadata |-> EmptyMap]

\* a loop that keeps the results only
AppendedResultsOnly(b, a, id) ==
    [b EXCEPT !.i = b.i + 1,
              !.fates = Append(b.fates, Fate(a)),
              !.results = IF a.pc = "assembled" THEN Append(b.results, a.result)
                          ELSE b.results]

\* one turn of the loop of analyze_batch, analyze having ended as a: the
\* result, or the error record under a new id
Appended(b, a, id) ==
    [b EXCEPT !.i = b.i + 1,
              !.fates = Append(b.fates, Fate(a)),
              !.results = Append(b.results,
                                 IF a.pc = "assembled" THEN a.result
                                 ELSE ErrorRecord(id, b.paths[b.i], a))]

\* a call of analyze_batch begins
BatchStart ==
    /\ bat = Idle /\ ana = Idle /\ sel = Idle
    /\ \E paths \in PathLists :
          bat' = [op |-> "analyze_batch", paths |-> paths, i |-> 1,
                  pc |-> "loop", fates |-> <<>>, results |-> <<>>]
    /\ UNCHANGED <<sto, clf, ext, mrg, sel, ana>>

\* one document of the batch: analyze runs to its end inside the try
BatchAnalyze ==
    /\ bat # Idle /\ bat.pc = "loop" /\ bat.i <= Len(bat.paths)
    /\ \E id \in Uuids, eid \in Uuids :
          LET a0 == Started(bat.paths[bat.i], id)
          IN  IF a0.pc = "failed" THEN bat' = Appended(bat, a0, eid)
              ELSE \E svc \in BatchServices :
                      LET a1 == Classified(a0, Predict(TRUE, TRUE, svc))
                          made == CreateExtractor(a1.classification.document_type)
                      IN  IF a1.pc = "failed" THEN bat' = Appended(bat, a1, eid)
                          ELSE IF made.status = "raised"
                          THEN bat' = Appended(bat,
                                         [a1 EXCEPT !.pc = "failed",
                                                    !.error = "unsupported"], eid)
                          ELSE \E env \in BatchEnvs(made.extractor) :
                                  bat' = Appended(bat,
                                            Extracted(a1, made.extractor, env), eid)
    /\ UNCHANGED <<sto, clf, ext, mrg, sel, ana>>

\* the loop is over: analyze_batch returns its list
BatchReturn ==
    /\ bat # Idle /\ bat.pc = "loop" /\ bat.i > Len(bat.paths)
    /\ bat' = [bat EXCEPT !.pc = "returned"]
    /\ UNCHANGED <<sto, clf, ext, mrg, sel, ana>>

\* the caller is done with the list
BatchDone ==
    /\ bat # Idle /\ bat.pc = "returned"
    /\ bat' = Idle
    /\ UNCHANGED <<sto, clf, ext, mrg, sel, ana>>

\* ---------------------------------------------------------------------
\* DocumentStore: one JSON file per document id in the storage directory
\* ---------------------------------------------------------------------

\* the callers of the store
Procs == {1, 2}

\* the document ids: one chosen by a caller, the others from uuid4
StoreIds == {"doc-1"} \cup Uuids

\* the payload of a record: a text, the number of pieces json.dump writes
\* for it, and whether every value of it is JSON serializable
Bodies ==
    {[text |-> "x", size |-> 1, ok |-> TRUE],
     [text |-> "y", size |-> 2, ok |-> TRUE],
     [text |-> "z", size |-> 2, ok |-> FALSE]}

\* a record of the store: its document_id entry ("none": no entry), its
\* stored_at entry (stamped: there is one) and its payload
NoRec == [document_id |-> "none", stamped |-> FALSE, stored_at |-> 0,
          body |-> [text |-> "", size |-> 0, ok |-> TRUE]]

\* the records a caller hands to store_analysis: with or without a
\* document_id entry, with or without an old stored_at entry
CallerRecords ==
    {[document_id |-> d, stamped |-> st, stored_at |-> 0, body |-> b] :
        d \in {"none", "doc-1"}, st \in BOOLEAN, b \in Bodies}

\* the records among them that are new: no document_id, no stored_at
NewRecords == {r \in CallerRecords : r.document_id = "none" /\ ~r.stamped}

\* datetime.utcnow(): the clock has not moved since it was last read, or
\* it has moved on
Clock(t) == {u \in {t, t + 1} : u <= MaxClock}

\* json.dump: the pieces of the text of a record, in order
Serialize(rec) == [k \in 1..rec.body.size |-> [rec |-> rec, k |-> k]]

\* the pieces json.dump has written when it returns or raises TypeError
\* at the value it cannot serialize
Written(rec) == IF rec.body.ok THEN rec.body.size ELSE rec.body.size - 1

\* the null bytes of a write past the end of a file
Hole == [rec |-> NoRec, k |-> 0]

\* write(2) of one piece at an offset of a file
WriteAt(data, off, piece) ==
    [k \in 1..(IF off + 1 > Len(data) THEN off + 1 ELSE Len(data)) |->
        IF k = off + 1 THEN piece
        ELSE IF k <= Len(data) THEN data[k] ELSE Hole]

\* json.load of the text of a file: the record, or JSONDecodeError
Parse(data) ==
    IF Len(data) > 0 /\ data[1].k = 1 /\ data = Serialize(data[1].rec)
    THEN [ok |-> TRUE, rec |-> data[1].rec]
    ELSE [ok |-> FALSE, rec |-> NoRec]

\* no file of that name
NoFile == [exists |-> FALSE, data |-> <<>>]

\* what a call returned or raised; count: total_documents of the stats
Ret(kind, id, rec, docs) ==
    [kind |-> kind, id |-> id, rec |-> rec, docs |-> docs, count |-> 0]

NoRet == Ret("none", "none", NoRec, <<>>)

\* the call a caller made before the present one, and the record it
\* handed to its latest store_analysis, as it was before the call
NoCall == [op |-> "none", id |-> "none", kind |-> "none"]

IdleProc ==
    [op |-> "idle", pc |-> "idle", id |-> "none", given |-> "none",
     supplied |-> "none", rec |-> NoRec, off |-> 0, orphan |-> FALSE, ret |-> NoRet,
     last |-> NoCall, arg |-> NoRec]

\* a caller may begin a call when its previous one is over
Ready(p) == procs[p].pc \in {"idle", "done"} /\ calls < MaxCalls

\* the call that is over, remembered by a caller that keeps track
Last(p, track) ==
    IF ~track THEN NoCall
    ELSE IF procs[p].pc = "done"
    THEN [op |-> procs[p].op, id |-> procs[p].id, kind |-> procs[p].ret.kind]
    ELSE procs[p].last

\* a call begins
Begun(p, track, op, pc, id, rec) ==
    [IdleProc EXCEPT !.op = op, !.pc = pc, !.id = id, !.rec = rec,
                     !.last = Last(p, track), !.arg = procs[p].arg]

\* a call is over
Ended(q, ret) == [q EXCEPT !.pc = "done", !.ret = ret]

\* a store that keeps the stored_at entry a record already has
StampedOnce(analysis_result, document_id, t) ==
    [analysis_result EXCEPT !.document_id = document_id,
                            !.stamped = TRUE,
                            !.stored_at = IF analysis_result.stamped
                                          THEN analysis_result.stored_at ELSE t]

\* store_analysis, "Add metadata": the record is changed in place
Stamped(analysis_result, document_id, t) ==
    [analysis_result EXCEPT !.document_id = document_id,
                            !.stamped = TRUE, !.stored_at = t]

\* the document_id arguments of a call: None, the caller's id, or an id
\* a call gave out before
IdArguments == {"None", "doc-1"} \cup issued

\* "if document_id is None": the ids uuid4 may give, or the id supplied
IdsFor(supplied) == IF supplied = "None" THEN Uuids \ issued ELSE {supplied}

\* store_analysis(analysis_result, document_id) up to the file name: the id
\* is the one given or a new uuid, the clock is read
PutCall(p, track) ==
    /\ Ready(p)
    /\ \E rec \in IF track THEN CallerRecords ELSE NewRecords,
          t \in Clock(now), supplied \in IdArguments :
          \E document_id \in IdsFor(supplied) :
              /\ procs' = [procs EXCEPT ![p] =
                              [Begun(p, track, "put", "open", document_id,
                                     Stamped(rec, document_id, t))
                                  EXCEPT !.supplied = supplied,
                                         !.arg = IF track THEN rec ELSE NoRec]]
              /\ issued' = (issued \cup {document_id}) \ {"doc-1"}
              /\ now' = t
    /\ calls' = calls + 1
    /\ UNCHANGED <<files, clf, ext, mrg, sel, ana, bat>>

\* the result analyze returns under the id it generated
AnalyzeResult(given, b) ==
    [document_id |-> given, stamped |-> FALSE, stored_at |-> 0, body |-> b]

\* POST /analyze after analyze has returned its result: store_analysis(result)
\* is called without an id
ApiAnalyzeCall(p, track) ==
    /\ Ready(p)
    /\ \E given \in Uuids \ issued, b \in Bodies, t \in Clock(now) :
          \E document_id \in Uuids \ (issued \cup {given}) :
              /\ b.ok
              /\ procs' = [procs EXCEPT ![p] =
                              [Begun(p, track, "put", "open", document_id,
                                     Stamped(AnalyzeResult(given, b), document_id, t))
                                  EXCEPT !.given = given,
                                         !.supplied = "None",
                                         !.arg = IF track THEN AnalyzeResult(given, b)
                                                 ELSE NoRec]]
              /\ issued' = issued \cup {given, document_id}
              /\ now' = t
    /\ calls' = calls + 1
    /\ UNCHANGED <<files, clf, ext, mrg, sel, ana, bat>>

\* open(file_path, 'w'): the file is created or truncated
PutOpen(p) ==
    /\ procs[p].op = "put" /\ procs[p].pc = "open"
    /\ files' = [files EXCEPT ![procs[p].id] = [exists |-> TRUE, data |-> <<>>]]
    /\ procs' = [procs EXCEPT ![p].pc = "write", ![p].off = 0, ![p].orphan = FALSE]
    /\ UNCHANGED <<now, issued, calls, clf, ext, mrg, sel, ana, bat>>

\* json.dump writes the next piece at the offset of its file object; the
\* piece is lost when the file was unlinked after the open
PutWrite(p) ==
    /\ procs[p].op = "put" /\ procs[p].pc = "write"
    /\ procs[p].off < Written(procs[p].rec)
    /\ files' = IF procs[p].orphan THEN files
                ELSE [files EXCEPT ![procs[p].id].data =
                         WriteAt(@, procs[p].off,
                                 Serialize(procs[p].rec)[procs[p].off + 1])]
    /\ procs' = [procs EXCEPT ![p].off = @ + 1]
    /\ UNCHANGED <<now, issued, calls, clf, ext, mrg, sel, ana, bat>>

\* the with block is left: store_analysis returns the id, or raises what
\* json.dump raised
PutClose(p) ==
    /\ procs[p].op = "put" /\ procs[p].pc = "write"
    /\ procs[p].off = Written(procs[p].rec)
    /\ procs' = [procs EXCEPT ![p] =
                    Ended(@, IF procs[p].rec.body.ok
                             THEN Ret("id", procs[p].id, procs[p].rec, <<>>)
                             ELSE Ret("raised", procs[p].id, NoRec, <<>>))]
    /\ UNCHANGED <<files, now, issued, calls, clf, ext, mrg, sel, ana, bat>>

\* a test that finds every file
ExistsAlways(fs, id) == TRUE

\* file_path.exists()
Exists(fs, id) == fs[id].exists

\* get_analysis(document_id) up to the test of file_path.exists()
GetCall(p, track) ==
    /\ Ready(p)
    /\ \E document_id \in StoreIds :
          procs' = [procs EXCEPT ![p] =
              IF Exists(files, document_id)
              THEN Begun(p, track, "get", "read", document_id, NoRec)
              ELSE Ended(Begun(p, track, "get", "read", document_id, NoRec),
                         Ret("absent", document_id, NoRec, <<>>))]
    /\ calls' = calls + 1
    /\ UNCHANGED <<files, now, issued, clf, ext, mrg, sel, ana, bat>>

\* open(file_path, 'r') and json.load: the record, or the exception of
\* open or of json.load
Read(file, id) ==
    IF file.exists /\ Parse(file.data).ok
    THEN Ret("record", id, Parse(file.data).rec, <<>>)
    ELSE Ret("raised", id, NoRec, <<>>)

\* get_analysis reads the file it found
GetRead(p) ==
    /\ procs[p].op = "get" /\ procs[p].pc = "read"
    /\ procs' = [procs EXCEPT ![p] = Ended(@, Read(files[procs[p].id], procs[p].id))]
    /\ UNCHANGED <<files, now, issued, calls, clf, ext, mrg, sel, ana, bat>>

\* delete_analysis(document_id) up to the test of file_path.exists()
DeleteCall(p, track) ==
    /\ Ready(p)
    /\ \E document_id \in StoreIds :
          procs' = [procs EXCEPT ![p] =
              IF Exists(files, document_id)
              THEN Begun(p, track, "delete", "unlink", document_id, NoRec)
              ELSE Ended(Begun(p, track, "delete", "unlink", document_id, NoRec),
                         Ret("false", document_id, NoRec, <<>>))]
    /\ calls' = calls + 1
    /\ UNCHANGED <<files, now, issued, clf, ext, mrg, sel, ana, bat>>

\* an unlink that leaves the file in place
UnlinkedKeeping(fs, id) == fs

\* file_path.unlink(): the name is removed
Unlinked(fs, id) == [fs EXCEPT ![id] = NoFile]

\* delete_analysis unlinks the file it found: True, or the exception of
\* unlink when the file is gone; the open files of that name lose it
DeleteUnlink(p) ==
    /\ procs[p].op = "delete" /\ procs[p].pc = "unlink"
    /\ LET id == procs[p].id
       IN  IF files[id].exists
           THEN /\ files' = Unlinked(files, id)
                /\ procs' = [q \in Procs |->
                                IF q = p THEN Ended(procs[p], Ret("true", id, NoRec, <<>>))
                                ELSE IF procs[q].op = "put" /\ procs[q].pc = "write"
                                        /\ procs[q].id = id
                                     THEN [procs[q] EXCEPT !.orphan = TRUE]
                                     ELSE procs[q]]
           ELSE /\ files' = files
                /\ procs' = [procs EXCEPT ![p] = Ended(@, Ret("raised", id, NoRec, <<>>))]
    /\ UNCHANGED <<now, issued, calls, clf, ext, mrg, sel, ana, bat>>

\* a JSON text that is no object: an array
ArrayValue ==
    [document_id |-> "none", stamped |-> FALSE, stored_at |-> 0,
     body |-> [text |-> "[]", size |-> 1, ok |-> TRUE]]

\* data.get exists: the loaded value is a dict
IsObject(rec) == rec.body.text # "[]"

\* the entry list_documents makes of a loaded file; stamped: its
\* stored_at is not None
DocInfo(rec) ==
    [document_id |-> rec.document_id, stamped |-> rec.stamped,
     stored_at |-> rec.stored_at, body |-> rec.body]

\* a sort that puts the oldest first
OldestFirst(docs) ==
    \A i, j \in 1..Len(docs) : i < j => docs[i].stored_at <= docs[j].stored_at

\* documents.sort(key=stored_at, reverse=True): newest first
NewestFirst(docs) ==
    \A i, j \in 1..Len(docs) : i < j => docs[i].stored_at >= docs[j].stored_at

\* the files of the glob whose entry list_documents appends: json.load
\* succeeds and the value has get; the others are logged and skipped
Loading(fs) ==
    {id \in StoreIds : /\ fs[id].exists
                       /\ Parse(fs[id].data).ok
                       /\ IsObject(Parse(fs[id].data).rec)}

\* the sort compares a key that is None: TypeError leaves list_documents
SortRaises(fs) ==
    /\ Cardinality(Loading(fs)) >= 2
    /\ \E id \in Loading(fs) : ~Parse(fs[id].data).rec.stamped

\* the lists list_documents may return: one entry per file that loads,
\* newest first, files of one date in the order of the glob
Listings(fs) ==
    LET loaded == Loading(fs)
    IN  {[k \in 1..Cardinality(loaded) |-> DocInfo(Parse(fs[order[k]].data).rec)] :
            order \in {o \in [1..Cardinality(loaded) -> loaded] :
                          /\ \A i, j \in 1..Cardinality(loaded) : i # j => o[i] # o[j]
                          /\ NewestFirst([k \in 1..Cardinality(loaded) |->
                                            Parse(fs[o[k]].data).rec])}}

\* list_documents()
ListCall(p, track) ==
    /\ Ready(p)
    /\ IF SortRaises(files)
       THEN procs' = [procs EXCEPT ![p] =
                         Ended(Begun(p, track, "list", "glob", "none", NoRec),
                               Ret("raised", "none", NoRec, <<>>))]
       ELSE \E docs \in Listings(files) :
               procs' = [procs EXCEPT ![p] =
                            Ended(Begun(p, track, "list", "glob", "none", NoRec),
                                  Ret("list", "none", NoRec, docs))]
    /\ calls' = calls + 1
    /\ UNCHANGED <<files, now, issued, clf, ext, mrg, sel, ana, bat>>

\* get_storage_stats, total_documents: the files of the glob
TotalDocuments(fs) == Cardinality({id \in StoreIds : fs[id].exists})

\* get_storage_stats()
StatsCall(p, track) ==
    /\ Ready(p)
    /\ procs' = [procs EXCEPT ![p] =
                    Ended(Begun(p, track, "stats", "glob", "none", NoRec),
                          [Ret("stats", "none", NoRec, <<>>)
                              EXCEPT !.count = TotalDocuments(files)])]
    /\ calls' = calls + 1
    /\ UNCHANGED <<files, now, issued, clf, ext, mrg, sel, ana, bat>>

InitIdle ==
    /\ clf = Idle
    /\ ext = Idle
    /\ mrg = Idle
    /\ sel = Idle
    /\ ana = Idle
    /\ bat = Idle
    /\ files = [id \in StoreIds |-> NoFile]
    /\ procs = [p \in Procs |-> IdleProc]
    /\ now = 1
    /\ issued = {}
    /\ calls = 0

NextClassify == PredictCall \/ PredictDone

SpecClassify == InitIdle /\ [][NextClassify]_vars

NextExtract == ExtractCall \/ ExtractDone \/ LlmEntitiesCall \/ LlmEntitiesDone

SpecExtract == InitIdle /\ [][NextExtract]_vars

NextAnalyze ==
    \/ CreateExtractorCall
    \/ CreateExtractorFromFileCall
    \/ CreateExtractorDone
    \/ AnalyzeStart
    \/ AnalyzeClassify
    \/ AnalyzeExtract
    \/ AnalyzeDone
    \/ BatchStart
    \/ BatchAnalyze
    \/ BatchReturn
    \/ BatchDone

SpecAnalyze == InitIdle /\ [][NextAnalyze]_vars

\* the steps of one caller of the store
StoreStep(p, track) ==
    \/ PutCall(p, track)
    \/ ApiAnalyzeCall(p, track)
    \/ PutOpen(p)
    \/ PutWrite(p)
    \/ PutClose(p)
    \/ GetCall(p, track)
    \/ GetRead(p)
    \/ DeleteCall(p, track)
    \/ DeleteUnlink(p)
    \/ ListCall(p, track)
    \/ StatsCall(p, track)

\* one caller, one call after the other, keeping track of its calls
NextStore == StoreStep(1, TRUE)

SpecStore == InitIdle /\ [][NextStore]_vars

\* what a storage directory may hold under a name when the store is
\* constructed over it
FoundKinds == {"nothing", "record", "empty", "array", "undated"}

\* the file of that kind: none, a record stored earlier, an empty text, a
\* JSON array, or a JSON object without stored_at
FoundFile(id, kind) ==
    LET plain == [document_id |-> id, stamped |-> FALSE, stored_at |-> 0,
                  body |-> [text |-> "x", size |-> 1, ok |-> TRUE]]
    IN  CASE kind = "nothing" -> NoFile
          [] kind = "record" -> [exists |-> TRUE, data |-> Serialize(Stamped(plain, id, 1))]
          [] kind = "empty" -> [exists |-> TRUE, data |-> <<>>]
          [] kind = "array" -> [exists |-> TRUE, data |-> Serialize(ArrayValue)]
          [] OTHER -> [exists |-> TRUE, data |-> Serialize(plain)]

\* a store constructed over a directory that holds any such files; its
\* caller makes one call
InitFound ==
    /\ clf = Idle /\ ext = Idle /\ mrg = Idle /\ sel = Idle /\ ana = Idle /\ bat = Idle
    /\ \E kind \in [StoreIds -> FoundKinds] :
          files = [id \in StoreIds |-> FoundFile(id, kind[id])]
    /\ procs = [p \in Procs |-> IdleProc]
    /\ now = 1
    /\ issued = {}
    /\ calls = MaxCalls - 1

SpecFound == InitFound /\ [][NextStore]_vars

\* the callers of the store take their steps in any order
NextShared == \E p \in Procs : StoreStep(p, FALSE)

\* a storage directory that holds one document, stored by an earlier call
InitShared ==
    /\ clf = Idle /\ ext = Idle /\ mrg = Idle /\ sel = Idle /\ ana = Idle /\ bat = Idle
    /\ \E rec \in NewRecords :
          /\ rec.body.ok
          /\ files = [id \in StoreIds |->
                         IF id = "doc-1"
                         THEN [exists |-> TRUE,
                               data |-> Serialize(Stamped(rec, "doc-1", 1))]
                         ELSE NoFile]
    /\ procs = [p \in Procs |-> IdleProc]
    /\ now = 1
    /\ issued = {}
    /\ calls = 1

SpecShared == InitShared /\ [][NextShared]_vars

(***************************************************************************)
(* Properties of the classifier (SpecClassify).                            *)
(***************************************************************************)
Returned == clf.op = "predict" /\ clf.out.status = "returned"

\* predict reached the completion service and got a full answer
Answered == clf.op = "predict" /\ clf.client /\ clf.text_ok /\ clf.svc.kind = "ok"

RankedTokens == {clf.svc.ranked[i].token : i \in 1..Len(clf.svc.ranked)}

Declared(v) == CHOOSE i \in 1..Len(DocumentType) : DocumentType[i] = v

\* C4: the distribution has an entry for every member of the enumeration,
\* 0.0 for a member that is not among the ranked tokens, and the returned
\* category is the first-declared member among those of maximal value,
\* whatever the raw completion token is.
C4_DistributionAndArgMax ==
    Returned =>
        LET d == clf.out.confidence_score
            c == clf.out.document_type
        IN  /\ DOMAIN d = DocumentTypeValues
            /\ \A v \in DocumentTypeValues : v \notin RankedTokens => d[v] = 0
            /\ c \in DocumentTypeValues
            /\ \A v \in DocumentTypeValues : d[v] <= d[c]
            /\ \A v \in DocumentTypeValues : d[v] = d[c] => Declared(c) <= Declared(v)

\* two categories tie at a positive maximum and the raw token is no category
C4_Witness ==
    /\ Returned
    /\ clf.out.raw_response \notin DocumentTypeValues
    /\ \E v \in DocumentTypeValues :
          /\ v # clf.out.document_type
          /\ clf.out.confidence_score[v] = clf.out.confidence_score[clf.out.document_type]
          /\ clf.out.confidence_score[v] > 0

\* C5 as stated: Unknown is returned whenever the completion token is no
\* known category, and never when the service returned a known category.
C5_UnknownIsTheFallback ==
    Returned =>
        /\ clf.out.raw_response \notin KnownTypes => clf.out.document_type = "Unknown"
        /\ (Len(clf.svc.ranked) > 0 /\ clf.svc.ranked[1].token \in KnownTypes)
              => clf.out.document_type # "Unknown"

\* C5 (amended): Unknown is never returned when the top-ranked token is the
\* label of Contract, Invoice or Financial; Unknown is returned only when
\* the token Unknown is ranked with a probability strictly above every
\* other category's.
C5_UnknownOnlyWhenRanked ==
    Returned =>
        /\ (Len(clf.svc.ranked) > 0 /\ clf.svc.ranked[1].token \in KnownTypes)
              => clf.out.document_type # "Unknown"
        /\ clf.out.document_type = "Unknown"
              => /\ "Unknown" \in RankedTokens
                 /\ \A v \in KnownTypes :
                       clf.out.confidence_score[v] < clf.out.confidence_score["Unknown"]

\* a known category on top, the token Unknown ranked as likely as it
C5_Witness ==
    /\ Returned
    /\ Len(clf.svc.ranked) > 1
    /\ clf.svc.ranked[1].token \in KnownTypes
    /\ "Unknown" \in RankedTokens
    /\ clf.out.confidence_score["Unknown"] = clf.out.confidence_score[clf.svc.ranked[1].token]

\* C6: when no ranked token equals a category label, predict returns, the
\* distribution is 0.0 everywhere and the category is the first-declared one.
C6_NoMatchFirstDeclared ==
    (Answered /\ RankedTokens \cap DocumentTypeValues = {}) =>
        /\ clf.out.status = "returned"
        /\ \A v \in DocumentTypeValues : clf.out.confidence_score[v] = 0
        /\ clf.out.document_type = DocumentType[1]

C6_Witness ==
    /\ Answered
    /\ Len(clf.svc.ranked) = MaxRanked
    /\ RankedTokens \cap DocumentTypeValues = {}
    /\ clf.out.status = "returned"

\* the top-ranked token is a label and no alternative is one
OnlyTopIsLabel ==
    /\ Answered
    /\ Len(clf.svc.ranked) > 0
    /\ clf.svc.ranked[1].token \in DocumentTypeValues
    /\ \A i \in 2..Len(clf.svc.ranked) : clf.svc.ranked[i].token \notin DocumentTypeValues

\* C7: when the top-ranked token is a category label and no other label is
\* ranked, that category is returned, its entry is exp of the token's
\* log-probability and every other entry is 0.0.
C7_SingleLabel ==
    OnlyTopIsLabel =>
        LET top == clf.svc.ranked[1]
        IN  /\ clf.out.status = "returned"
            /\ clf.out.document_type = top.token
            /\ clf.out.confidence_score[top.token] = 2 ^ (ExpFloor - top.logprob)
            /\ \A v \in DocumentTypeValues \ {top.token} : clf.out.confidence_score[v] = 0

\* ... with less likely alternatives behind the label
C7_Witness ==
    /\ OnlyTopIsLabel
    /\ Len(clf.svc.ranked) > 1
    /\ clf.svc.ranked[2].logprob > clf.svc.ranked[1].logprob
    /\ clf.out.document_type = clf.svc.ranked[1].token

\* C8: without a usable client, with a failing completion service or with a
\* response that lacks the log-probability payload predict raises, and a
\* call makes at most one completion request.
C8_FailuresRaise ==
    clf.op = "predict" =>
        /\ clf.out.requests <= 1
        /\ (~clf.client \/ clf.svc.kind \in {"error", "no_logprobs", "empty_logprobs"})
              => clf.out.status = "raised"

\* the request was made and the answer had no log-probabilities
C8_Witness ==
    /\ clf.op = "predict"
    /\ clf.client /\ clf.text_ok
    /\ clf.svc.kind = "no_logprobs"
    /\ clf.out.status = "raised"
    /\ clf.out.requests = 1

(***************************************************************************)
(* Properties of the extractors (SpecExtract).                             *)
(***************************************************************************)
\* extract ran its model pass and the pass failed
ModelPassFailed ==
    ext.op = "extract" /\ ext.env.kind \in {"error", "invalid_json", "non_object"}

\* C1: when the model pass fails (the completion call raises or its text is
\* no JSON object) extract returns the rule results as fields and a
\* non-empty errors list.
C1_ModelPassFailureRecorded ==
    ModelPassFailed =>
        /\ ext.out.metadata.additional_fields = ext.rule
        /\ ext.out.errors # <<>>

\* C2: when the model pass parsed a JSON object, every key of the object has
\* the model's value in the merged map, null included, and every key of the
\* rule results alone keeps its rule value; there are no other keys.
C2_ModelOverridesRule ==
    (mrg.op = "llm_entities" /\ mrg.resp.kind = "object") =>
        /\ DOMAIN mrg.out = DOMAIN mrg.rule \cup DOMAIN mrg.resp.obj
        /\ \A k \in DOMAIN mrg.resp.obj : mrg.out[k] = mrg.resp.obj[k]
        /\ \A k \in DOMAIN mrg.rule \ DOMAIN mrg.resp.obj : mrg.out[k] = mrg.rule[k]

\* the model returns null for a key the rule pass found, and the rule pass
\* found another key the model does not mention
C2_Witness ==
    /\ mrg.op = "llm_entities" /\ mrg.resp.kind = "object"
    /\ \E k \in DOMAIN mrg.rule \cap DOMAIN mrg.resp.obj :
          mrg.resp.obj[k] = "null" /\ mrg.out[k] = "null"
    /\ DOMAIN mrg.rule \ DOMAIN mrg.resp.obj # {}

\* the expected fields of the extractor that was called
Expected == {ExtractionFields(ext.kind)[i] : i \in 1..Len(ExtractionFields(ext.kind))}

\* the expected fields present and not null in the outcome
Found ==
    {f \in Expected : /\ f \in DOMAIN ext.out.metadata.additional_fields
                      /\ ext.out.metadata.additional_fields[f] # "null"}

\* C3: the confidence of every outcome of extract is the number of expected
\* fields present and not null in its fields over the number of expected
\* fields: 0.0 when none is present, 1.0 when all are.
C3_ConfidenceIsCoverage ==
    ext.op = "extract" =>
        LET c == ext.out.metadata.confidence_score
        IN  /\ c.den > 0
            /\ c.num * Cardinality(Expected) = Cardinality(Found) * c.den
            /\ Found = {} => c.num = 0
            /\ (Found = Expected /\ Expected # {}) => c.num = c.den

\* some expected fields found, another one present with the value null
C3_Witness ==
    /\ ext.op = "extract"
    /\ Found # {} /\ Found # Expected
    /\ \E f \in Expected \cap DOMAIN ext.out.metadata.additional_fields :
          ext.out.metadata.additional_fields[f] = "null"
    /\ ext.out.metadata.confidence_score.num = Cardinality(Found)

(***************************************************************************)
(* Properties of the selector and of analyze (SpecAnalyze).                *)
(***************************************************************************)
\* the file name suggests no category
NoKeyword(file_name) ==
    \A keyword \in {"invoice", "bill", "contract", "agreement", "report", "earnings"} :
        ~Contains(file_name, keyword)

\* C9: the selector maps Invoice, Contract and Report to their extractors
\* and signals an error for Unknown and every other value; no entry point
\* of the selector answers with an extractor when no category is known.
C9_SelectorNeverDefaults ==
    /\ (sel.op \in {"create_extractor", "create_extractor_from_file"}
            /\ sel.document_type # "None") =>
          IF sel.document_type \in KnownTypes
          THEN sel.out = [status |-> "returned", extractor |-> sel.document_type]
          ELSE sel.out.status = "raised"
    /\ (sel.op = "create_extractor_from_file" /\ sel.document_type = "None"
            /\ NoKeyword(sel.file_name)) =>
          sel.out.status = "raised"

\* C10: when the classifier returned Unknown, analyze ends with a result
\* whose fields are empty and whose errors list records the unsupported
\* category; it does not raise.
C10_UnknownStillAssembled ==
    (/\ ana.op = "analyze"
     /\ ana.pc \in {"assembled", "failed"}
     /\ ana.classification.status = "returned"
     /\ ana.classification.document_type \notin KnownTypes) =>
        /\ ana.pc = "assembled"
        /\ ana.result.metadata = EmptyMap
        /\ ana.result.processing_info.errors # <<>>

\* ---------------------------------------------------------------------
\* The order of the steps of analyze
\* ---------------------------------------------------------------------

Running(a) == a # Idle /\ a.op = "analyze"

\* C11: every step of an analyze call follows START, CLASSIFYING,
\* EXTRACTING, ASSEMBLED: extraction starts only from classification, with
\* the classification returned; the result is assembled only from
\* extraction; a call that classification has begun fails only from
\* classification; and from extraction the only step is to the assembled
\* result, which carries an errors list
C11_StepsInOrder ==
    [][/\ (Running(ana') /\ ana'.pc = "extracting") =>
              /\ Running(ana) /\ ana.pc = "classifying"
              /\ ana'.classification.status = "returned"
       /\ (Running(ana') /\ ana'.pc = "assembled") =>
              Running(ana) /\ ana.pc = "extracting"
       /\ (Running(ana) /\ Running(ana') /\ ana'.pc = "failed") =>
              ana.pc = "classifying"
       /\ (Running(ana) /\ ana.pc = "extracting" /\ ana' # ana) =>
              /\ Running(ana') /\ ana'.pc = "assembled"
              /\ ana'.result # NoResult]_vars

\* C13: analyze of a path that does not exist has failed with the
\* not-found error, it has made no classification or extraction request,
\* it holds no classification and it returns no result
C13_MissingPathFailsFirst ==
    (Running(ana) /\ ~ana.path.exists) =>
        /\ ana.pc = "failed"
        /\ ana.error = "not_found"
        /\ ana.requests = 0
        /\ ana.classification = NoClassification
        /\ ana.extractor = "none"
        /\ ana.result = NoResult

C13_Witness ==
    /\ Running(ana)
    /\ ~ana.path.exists
    /\ ana.pc = "failed"
    /\ ana.error = "not_found"

\* the largest entry of a distribution
IsLargest(scores, v) == \A t \in DOMAIN scores : scores[t] <= v

\* the label of a category in lower case, value by value
LabelOf(t) ==
    CASE t = "Contract" -> "contract"
      [] t = "Invoice" -> "invoice"
      [] t = "Financial" -> "financial"
      [] OTHER -> "unknown"

\* C14: in every assembled result, the category is the lower-cased label
\* of the category the classifier returned, and the classification
\* confidence is the distribution entry of that category, the largest
\* entry of the distribution
C14_CategoryAndConfidence ==
    (Running(ana) /\ ana.pc = "assembled") =>
        /\ ana.result.classification.type = LabelOf(ana.classification.document_type)
        /\ ana.result.classification.confidence =
               ana.classification.confidence_score[ana.classification.document_type]
        /\ IsLargest(ana.classification.confidence_score,
                     ana.result.classification.confidence)

\* an assembled result whose category is not the first declared one and
\* whose distribution has two different entries
C14_Witness ==
    /\ Running(ana)
    /\ ana.pc = "assembled"
    /\ ana.classification.document_type = "Invoice"
    /\ ana.result.classification.type = "invoice"
    /\ ana.result.classification.confidence > 0
    /\ \E t \in DOMAIN ana.classification.confidence_score :
           ana.classification.confidence_score[t] <
               ana.result.classification.confidence

\* ---------------------------------------------------------------------
\* analyze_batch
\* ---------------------------------------------------------------------

IsErrorRecord(slot) == "error" \in DOMAIN slot

\* C12: analyze_batch fills one slot per input path, in input order: at
\* every turn of the loop and at the return, slot k belongs to path k; the
\* slot of a document whose analyze failed is an error record with an id,
\* the file name, the error text, a null category and empty fields; the
\* slot of any other document is its result; the loop goes on after a
\* failure and the call returns with all the slots
C12_OneSlotPerPath ==
    (bat # Idle) =>
        /\ Len(bat.results) = bat.i - 1
        /\ Len(bat.fates) = bat.i - 1
        /\ bat.pc = "returned" => Len(bat.results) = Len(bat.paths)
        /\ \A k \in 1..Len(bat.results) :
              /\ bat.results[k].filename = bat.paths[k].name
              /\ bat.results[k].document_id \in Uuids
              /\ ~bat.paths[k].exists => bat.fates[k] = "not_found"
              /\ IF bat.fates[k] = "assembled"
                 THEN /\ ~IsErrorRecord(bat.results[k])
                      /\ bat.results[k].classification.type \in {"contract", "invoice", "financial"}
                 ELSE /\ IsErrorRecord(bat.results[k])
                      /\ bat.results[k].error = bat.fates[k]
                      /\ bat.results[k].classification = "null"
                      /\ bat.results[k].metadata = EmptyMap

\* a returned batch of three whose first document is missing, whose
\* second fails in classification and whose third is analysed
C12_Witness ==
    /\ bat # Idle
    /\ bat.pc = "returned"
    /\ Len(bat.paths) = 3
    /\ bat.fates = <<"not_found", "classification", "assembled">>
    /\ IsErrorRecord(bat.results[1])
    /\ IsErrorRecord(bat.results[2])
    /\ ~IsErrorRecord(bat.results[3])

\* ---------------------------------------------------------------------
\* The document store, one caller
\* ---------------------------------------------------------------------

\* the caller of SpecStore has finished a call
Finished(op) == procs[1].op = op /\ procs[1].pc = "done"

\* the call before it
Before(op, kind) == procs[1].last.op = op /\ procs[1].last.kind = kind

\* C15: the id analyze gave a result is the id under which the store
\* persists it: a result that POST /analyze hands to the store is written
\* under the id it carries, keeps that id in its document_id entry, and
\* store_analysis returns that id
C15_IdAssignedOnce ==
    \A p \in Procs :
        (procs[p].op = "put" /\ procs[p].given # "none") =>
            /\ procs[p].id = procs[p].given
            /\ procs[p].rec.document_id = procs[p].given
            /\ procs[p].pc = "done" => procs[p].ret.id = procs[p].given

\* C16: round trip: a get of the id that the put before it returned gives
\* the record handed to that put, equal in its payload and in the
\* document_id it carried, with the stored_at the store read from its
\* clock at the write
C16_RoundTrip ==
    (/\ Finished("get")
     /\ Before("put", "id")
     /\ procs[1].id = procs[1].last.id) =>
        /\ procs[1].ret.kind = "record"
        /\ procs[1].ret.rec.body = procs[1].arg.body
        /\ procs[1].arg.document_id # "none" =>
               procs[1].ret.rec.document_id = procs[1].arg.document_id
        /\ procs[1].ret.rec.stamped
        /\ procs[1].ret.rec.stored_at \in 1..now

\* C17: a delete right after a delete of the same id that returned true
\* returns false; a get right after it returns no record; a list right
\* after it has no entry of that id; a delete returns true or false, and
\* after true the file is gone
C17_DeleteTwice ==
    /\ Finished("delete") =>
          /\ procs[1].ret.kind \in {"true", "false"}
          /\ procs[1].ret.kind = "true" => ~files[procs[1].id].exists
    /\ (Before("delete", "true") /\ procs[1].pc = "done") =>
          /\ (procs[1].op = "delete" /\ procs[1].id = procs[1].last.id) =>
                 procs[1].ret.kind = "false"
          /\ (procs[1].op = "get" /\ procs[1].id = procs[1].last.id) =>
                 procs[1].ret.kind = "absent"
          /\ procs[1].op = "list" =>
                 \A k \in 1..Len(procs[1].ret.docs) :
                     procs[1].ret.docs[k].document_id # procs[1].last.id

\* the second of two deletes of one id has returned false
C17_Witness ==
    /\ Finished("delete")
    /\ Before("delete", "true")
    /\ procs[1].id = procs[1].last.id
    /\ procs[1].ret.kind = "false"

PutInProgress(id) ==
    \E q \in Procs : /\ procs[q].op = "put"
                     /\ procs[q].pc = "write"
                     /\ procs[q].id = id

\* C19: a get that reads the file of an id while a put of that id is in
\* progress returns absent or a complete record; it raises nothing
C19_WritesAtomicForReaders ==
    [][\A p \in Procs :
          (/\ procs[p].op = "get" /\ procs[p].pc = "read"
           /\ procs'[p].pc = "done"
           /\ PutInProgress(procs[p].id)) =>
              procs'[p].ret.kind \in {"absent", "record"}]_vars

\* both callers have returned from a put of the same id
BothPut ==
    /\ \A p \in Procs : /\ procs[p].op = "put" /\ procs[p].pc = "done"
                        /\ procs[p].ret.kind = "id"
    /\ procs[1].id = procs[2].id

\* the file of an id holds one of the records the two callers wrote
EntirelyOne(id) ==
    /\ files[id].exists
    /\ Parse(files[id].data).ok
    /\ \E p \in Procs : Parse(files[id].data).rec = procs[p].rec

\* C20: after two puts of one id, the file of that id holds entirely one
\* of the two records, and no step of a put changes the file of another id
C20_PutsSerialized ==
    [][/\ BothPut' => EntirelyOne(procs[1].id)'
       /\ \A p \in Procs, id \in StoreIds :
             (/\ procs[p].op = "put"
              /\ procs'[p] # procs[p]
              /\ id # procs[p].id) => files'[id] = files[id]]_vars

\* ---------------------------------------------------------------------
\* The document store, one caller: what put writes and what list returns
\* ---------------------------------------------------------------------

\* C21: a put that has returned gave back the id of the file that now holds
\* the record; that id is the one supplied, or with none supplied an id no
\* call had given out; the stored record has the payload handed in and a
\* stored_at read from the clock during the call, whatever stored_at the
\* caller's record carried
C21_PutStampsAndReturnsId ==
    (Finished("put") /\ procs[1].ret.kind = "id") =>
        /\ procs[1].ret.id = procs[1].id
        /\ procs[1].supplied # "None" => procs[1].ret.id = procs[1].supplied
        /\ procs[1].supplied = "None" => procs[1].ret.id \in Uuids
        /\ files[procs[1].ret.id].exists
        /\ Parse(files[procs[1].ret.id].data).ok
        /\ LET stored == Parse(files[procs[1].ret.id].data).rec
           IN  /\ stored.body = procs[1].arg.body
               /\ stored.stamped
               /\ stored.stored_at = now
               /\ stored.stored_at # procs[1].arg.stored_at

\* a put without an id of a record that carried a stored_at has returned
C21_Witness ==
    /\ Finished("put")
    /\ procs[1].ret.kind = "id"
    /\ procs[1].supplied = "None"
    /\ procs[1].arg.stamped
    /\ Parse(files[procs[1].ret.id].data).rec.stored_at = 2

\* the ids for which get returns a record
Kept == {id \in StoreIds : files[id].exists /\ Parse(files[id].data).ok}

\* C22: a list that has returned holds one summary per stored record, each
\* with the stored_at of its record, no id twice, and every summary is at
\* least as new as the ones after it
C22_ListNewestFirst ==
    Finished("list") =>
        /\ procs[1].ret.kind = "list"
        /\ Len(procs[1].ret.docs) = Cardinality(Kept)
        /\ {procs[1].ret.docs[k].document_id : k \in 1..Len(procs[1].ret.docs)} = Kept
        /\ \A k \in 1..Len(procs[1].ret.docs) :
              /\ procs[1].ret.docs[k].stamped
              /\ procs[1].ret.docs[k].stored_at =
                     Parse(files[procs[1].ret.docs[k].document_id].data).rec.stored_at
              /\ \A j \in 1..Len(procs[1].ret.docs) :
                     k < j => procs[1].ret.docs[k].stored_at >=
                                  procs[1].ret.docs[j].stored_at

\* a list of two records stored at different times
C22_Witness ==
    /\ Finished("list")
    /\ Len(procs[1].ret.docs) = 2
    /\ procs[1].ret.docs[1].stored_at > procs[1].ret.docs[2].stored_at

\* ---------------------------------------------------------------------
\* The document store over a directory it did not fill
\* ---------------------------------------------------------------------

\* the names whose file holds a valid record: an object with a stored_at
Valid ==
    {id \in StoreIds : /\ files[id].exists
                       /\ Parse(files[id].data).ok
                       /\ IsObject(Parse(files[id].data).rec)
                       /\ Parse(files[id].data).rec.stamped}

\* C23: whatever the directory holds, list returns a list, never raises,
\* and the list holds the summaries of the valid records and of nothing
\* else: a text that does not parse, a value that is no object and an
\* object without stored_at are skipped
C23_ListBestEffort ==
    Finished("list") =>
        /\ procs[1].ret.kind = "list"
        /\ Len(procs[1].ret.docs) = Cardinality(Valid)
        /\ \A k \in 1..Len(procs[1].ret.docs) :
              procs[1].ret.docs[k].document_id \in Valid

\* ---------------------------------------------------------------------
\* The document store, one caller: failed puts, counts, ids
\* ---------------------------------------------------------------------

\* C27: a put that raised leaves the store as it was: its file is absent
\* or holds a complete record, a put that could not be serialized has
\* written nothing of its record, and a get of that id right after it
\* returns absent or a record
C27_FailedPutChangesNothing ==
    /\ (Finished("put") /\ procs[1].ret.kind = "raised") =>
          /\ ~files[procs[1].id].exists \/ Parse(files[procs[1].id].data).ok
          /\ \A k \in 1..Len(files[procs[1].id].data) :
                 files[procs[1].id].data[k].rec # procs[1].rec
    /\ (Finished("get") /\ Before("put", "raised")
        /\ procs[1].id = procs[1].last.id) =>
          procs[1].ret.kind \in {"absent", "record"}

\* C28: the count of a stats that has returned is the number of ids with
\* a file, the number of summaries list would return, and the number of
\* ids for which get returns a record
C28_CountsAgree ==
    Finished("stats") =>
        /\ procs[1].ret.kind = "stats"
        /\ procs[1].ret.count = Cardinality({id \in StoreIds : files[id].exists})
        /\ ~SortRaises(files)
        /\ \A docs \in Listings(files) : Len(docs) = procs[1].ret.count
        /\ procs[1].ret.count =
               Cardinality({id \in StoreIds : Read(files[id], id).kind = "record"})

\* C29: for every id, a get returns absent or a record whose document_id
\* is that id: a get that is over has not raised, and the record it
\* returned carries the id it was asked for
C29_RecordCarriesItsKey ==
    Finished("get") =>
        /\ procs[1].ret.kind \in {"absent", "record"}
        /\ procs[1].ret.kind = "record" =>
               procs[1].ret.rec.document_id = procs[1].id

\* ---------------------------------------------------------------------
\* The document store, callers at the same time: delete
\* ---------------------------------------------------------------------

\* C30: a get that reads after a delete of another caller has removed the
\* file returns absent or a record, and a delete that unlinks returns
\* true or false: neither raises
C30_DeleteRacesEndNormally ==
    [][\A p \in Procs :
          /\ (/\ procs[p].op = "get" /\ procs[p].pc = "read"
              /\ procs'[p].pc = "done"
              /\ ~files[procs[p].id].exists) =>
                 procs'[p].ret.kind \in {"absent", "record"}
          /\ (/\ procs[p].op = "delete" /\ procs[p].pc = "unlink"
              /\ procs'[p].pc = "done") =>
                 procs'[p].ret.kind \in {"true", "false"}]_vars

\* ---------------------------------------------------------------------
\* The extractors: the document type they carry, the outcome of extract
\* ---------------------------------------------------------------------

\* the label the tests expect of each extractor class
ExpectedLabel ==
    [ContractExtractor |-> "contract", InvoiceExtractor |-> "invoice",
     ReportExtractor |-> "earnings_report"]

\* C25: the metadata of every outcome of extract carries the document type
\* "contract" for the contract extractor, "invoice" for the invoice
\* extractor and "earnings_report" for the report extractor
C25_DocumentTypeLabels ==
    ext # Idle =>
        ext.out.metadata.document_type = ExpectedLabel[ExtractorClass[ext.kind]]

\* the pass of extract failed: the text or the prompt could not be had, or
\* validation raised on the metadata made of the merged entities
PassFailed ==
    \/ ext.env.kind \in {"text_error", "prompt_error"}
    \/ ValidateRaises(CreateMetadata(ext.kind,
            ExtractLLMEntities(ExtractRuleBasedEntities(ext.kind), ext.env)))

\* C26: extract always returns an outcome with the method
\* "hybrid_entity_extraction"; when the pass failed the outcome carries the
\* extractor's document type, no fields, confidence 0 and exactly one
\* error; when it did not, the errors are exactly those validation returned
C26_ExtractNeverRaises ==
    ext # Idle =>
        /\ ext.out.extraction_method = "hybrid_entity_extraction"
        /\ PassFailed =>
              /\ ext.out.metadata.document_type = ext.kind
              /\ ext.out.metadata.additional_fields = EmptyMap
              /\ ext.out.metadata.document_date = "null"
              /\ ext.out.metadata.total_amount = "null"
              /\ ext.out.metadata.currency = "null"
              /\ ext.out.metadata.parties = "empty"
              /\ ext.out.metadata.confidence_score.num = 0
              /\ Len(ext.out.errors) = 1
        /\ ~PassFailed => ext.out.errors = ValidateMetadata(ext.out.metadata)

\* an extract whose model pass answered an object that validation raised
\* on has returned the failure outcome
C26_Witness ==
    /\ ext # Idle
    /\ ext.env.kind = "object"
    /\ PassFailed
    /\ Len(ext.out.errors) = 1
    /\ ext.out.metadata.additional_fields = EmptyMap

\* ---------------------------------------------------------------------
\* The fields of the result of analyze
\* ---------------------------------------------------------------------

\* the map extract merges from the rule pass and the model pass
Merged(kind, env) == ExtractLLMEntities(ExtractRuleBasedEntities(kind), env)

\* C24: when analyze assembles its result after an extraction whose model
\* pass was reached, the fields of the result are the merged rule/model
\* map: the same keys with the same values, whatever the values are
C24_FieldsAreTheMergedMap ==
    [][(/\ Running(ana) /\ ana.pc = "extracting"
        /\ Running(ana') /\ ana'.pc = "assembled") =>
          \A env \in AnalyzeEnvsOf[ana'.extractor] :
              (/\ ana' = Extracted(ana, ana'.extractor, env)
               /\ env.kind \notin {"text_error", "prompt_error"}) =>
                  ana'.result.metadata = Merged(ana'.extractor, env)]_vars

====
